---- MODULE Spec2Model ----
(***************************************************************************)
(* Model of scripts/bump_version.py: the version bumper of the             *)
(* hashicorp-downloader crate.  A text (Cargo.toml, Cargo.lock, a version  *)
(* string) is a sequence of characters; words of the files that the        *)
(* script's patterns treat as a unit ("package", "version", "name", the    *)
(* crate name) are single elements of the sequence.                        *)
(***************************************************************************)
EXTENDS Integers, Sequences, FiniteSets, TLC

\* ---------------------------------------------------------------- bounds
MaxVerLen == 6
MaxManifestLines == 3
MaxBlocks == 2
MaxRuns == 2
MaxPatches == 2

\* ------------------------------------------------------------ characters
NL == "\n"
SP == " "
QUOTE == "\""
BSLASH == "\\"
DOT == "."
LBR == "["
RBR == "]"
EQ == "="
W_PACKAGE == "package"
W_DEPS == "dependencies"
W_VERSION == "version"
W_NAME == "name"
W_OTHER == "edition"
CRATE == "hashicorp-downloader"
OTHER_CRATE == "bar"

Digits == {"0", "1", "2", "3", "4", "5", "6", "7", "8", "9"}
Whitespace == {SP, NL}

DigitVal(c) ==
  CASE c = "0" -> 0 [] c = "1" -> 1 [] c = "2" -> 2 [] c = "3" -> 3
    [] c = "4" -> 4 [] c = "5" -> 5 [] c = "6" -> 6 [] c = "7" -> 7
    [] c = "8" -> 8 [] c = "9" -> 9

DigitChar(d) ==
  CASE d = 0 -> "0" [] d = 1 -> "1" [] d = 2 -> "2" [] d = 3 -> "3"
    [] d = 4 -> "4" [] d = 5 -> "5" [] d = 6 -> "6" [] d = 7 -> "7"
    [] d = 8 -> "8" [] d = 9 -> "9"

\* ----------------------------------------------- regular-expression parts
\* A pattern is matched left to right: each part maps the position it
\* starts at to the position after it, and 0 stands for "no match".

\* t[i..j-1], Python's t[i:j] with 1-based positions
Slice(t, i, j) == SubSeq(t, i, j - 1)

\* (?m)^ at position i of t
AtBOL(t, i) == i = 1 \/ t[i - 1] = NL

\* (?m)$ at position i of t
AtEOL(t, i) == i = Len(t) + 1 \/ t[i] = NL

\* a literal at position i of t
HasAt(t, i, lit) ==
  /\ i + Len(lit) - 1 <= Len(t)
  /\ \A k \in 1..Len(lit) : t[i + k - 1] = lit[k]

\* the position after the longest run of characters of S that starts at i
RunEnd(t, i, S) ==
  CHOOSE j \in i..(Len(t) + 1) :
    /\ \A k \in i..(j - 1) : t[k] \in S
    /\ (j = Len(t) + 1 \/ t[j] \notin S)

\* the leftmost and the rightmost of a set of positions, 0 if there is none
MinOr0(S) == IF S = {} THEN 0 ELSE CHOOSE x \in S : \A y \in S : x <= y
MaxOr0(S) == IF S = {} THEN 0 ELSE CHOOSE x \in S : \A y \in S : y <= x

\* the character c at position i
Lit(t, i, c) == IF i = 0 \/ i > Len(t) \/ t[i] # c THEN 0 ELSE i + 1

\* \s* at position i
SkipWS(t, i) == IF i = 0 THEN 0 ELSE RunEnd(t, i, Whitespace)

\* a run from i to j that has to be non-empty
NonEmpty(i, j) == IF j = i THEN 0 ELSE j

\* [0-9]+ at position i
DigitsEnd(t, i) == IF i = 0 THEN 0 ELSE NonEmpty(i, RunEnd(t, i, Digits))

\* [0-9]+\.[0-9]+\.[0-9]+ at position i
VersionNumberEnd(t, i) ==
  DigitsEnd(t, Lit(t, DigitsEnd(t, Lit(t, DigitsEnd(t, i), DOT)), DOT))

\* s.strip(): s from its first character a that is not whitespace
StripFrom(s, a) ==
  IF a > Len(s) THEN <<>>
  ELSE SubSeq(s, a, MaxOr0({j \in a..Len(s) : s[j] \notin Whitespace}))

Strip(s) == StripFrom(s, RunEnd(s, 1, Whitespace))

\* int(digits)
RECURSIVE ParseInt(_)
ParseInt(ds) ==
  IF ds = <<>> THEN 0
  ELSE 10 * ParseInt(SubSeq(ds, 1, Len(ds) - 1)) + DigitVal(ds[Len(ds)])

\* str(n) with the digits in the order the divisions produce them
RECURSIVE FormatInt_Reversed(_)
FormatInt_Reversed(n) ==
  IF n < 10 THEN <<DigitChar(n)>>
  ELSE <<DigitChar(n % 10)>> \o FormatInt_Reversed(n \div 10)

\* str(n) for n >= 0
RECURSIVE FormatInt(_)
FormatInt(n) ==
  IF n < 10 THEN <<DigitChar(n)>>
  ELSE Append(FormatInt(n \div 10), DigitChar(n % 10))

\* f"{major}.{minor}.{patch}"
FormatVersion(v) ==
  FormatInt(v[1]) \o <<DOT>> \o FormatInt(v[2]) \o <<DOT>> \o FormatInt(v[3])

\* m.groups() of a match on s whose dots are at positions a and b
Groups(s, a, b) ==
  <<Slice(s, 1, a), Slice(s, a + 1, b), Slice(s, b + 1, Len(s) + 1)>>

\* map(int, m.groups())
IntsOf(g) == <<ParseInt(g[1]), ParseInt(g[2]), ParseInt(g[3])>>

\* re.match(r"^(\d+)\.(\d+)\.(\d+)$", s) and line 12
MatchVersion(s) ==
  IF VersionNumberEnd(s, 1) # Len(s) + 1
  THEN [ok |-> FALSE, val |-> <<>>]
  ELSE [ok |-> TRUE,
        val |-> IntsOf(Groups(s, DigitsEnd(s, 1), DigitsEnd(s, DigitsEnd(s, 1) + 1)))]

\* lines 9-12 of bump: major, minor, patch, or ok = FALSE for the ValueError
ParseVersion(ver) == MatchVersion(Strip(ver))

\* the chain with a minor branch that forgets patch = 0
ApplyKind_NoReset(v, kind) ==
  IF kind = "major" THEN [ok |-> TRUE, val |-> <<v[1] + 1, 0, 0>>]
  ELSE IF kind = "minor" THEN [ok |-> TRUE, val |-> <<v[1], v[2] + 1, v[3]>>]
  ELSE IF kind = "patch" THEN [ok |-> TRUE, val |-> <<v[1], v[2], v[3] + 1>>]
  ELSE [ok |-> FALSE, val |-> <<>>]

\* the chain with a final else that bumps patch instead of raising
ApplyKind_DefaultPatch(v, kind) ==
  IF kind = "major" THEN [ok |-> TRUE, val |-> <<v[1] + 1, 0, 0>>]
  ELSE IF kind = "minor" THEN [ok |-> TRUE, val |-> <<v[1], v[2] + 1, 0>>]
  ELSE [ok |-> TRUE, val |-> <<v[1], v[2], v[3] + 1>>]

\* the if/elif chain of bump on the parsed triple
ApplyKind(v, kind) ==
  IF kind = "major" THEN [ok |-> TRUE, val |-> <<v[1] + 1, 0, 0>>]
  ELSE IF kind = "minor" THEN [ok |-> TRUE, val |-> <<v[1], v[2] + 1, 0>>]
  ELSE IF kind = "patch" THEN [ok |-> TRUE, val |-> <<v[1], v[2], v[3] + 1>>]
  ELSE [ok |-> FALSE, val |-> <<>>]

\* lines 19-21 of bump on the outcome r of the chain
BumpApplied(r) ==
  IF ~r.ok THEN [ok |-> FALSE, val |-> <<"ValueError", "Invalid bump kind">>]
  ELSE [ok |-> TRUE, val |-> FormatVersion(r.val)]

\* lines 10-21 of bump on the outcome p of the match
BumpParsed(p, kind) ==
  IF ~p.ok THEN [ok |-> FALSE, val |-> <<"ValueError", "Unsupported version format">>]
  ELSE BumpApplied(ApplyKind(p.val, kind))

\* bump(ver, kind): the new version string, or the ValueError raised
bump(ver, kind) == BumpParsed(ParseVersion(ver), kind)

\* --------------------------------------------------- version-line patterns
\* version\s*=\s* at position i
VersionKeyEnd(t, i) == SkipWS(t, Lit(t, SkipWS(t, Lit(t, i, W_VERSION)), EQ))

\* a match of (?m)^(version\s*=\s*)\"([0-9]+\.[0-9]+\.[0-9]+)\": group 1 is
\* t[start..g1end-1], group 2 is t[g1end+1..vend-1], the match ends before end
NoMatch == [ok |-> FALSE, start |-> 0, g1end |-> 0, vend |-> 0, end |-> 0]

MatchRecord(i, k, e, f) ==
  IF f = 0 THEN NoMatch
  ELSE [ok |-> TRUE, start |-> i, g1end |-> k, vend |-> e, end |-> f]

\* the match at i once group 1 is known to end at k, and group 2 at e
VersionMatchValue(t, i, k, e) == MatchRecord(i, k, e, Lit(t, e, QUOTE))
VersionMatchKey(t, i, k) ==
  VersionMatchValue(t, i, k, VersionNumberEnd(t, Lit(t, k, QUOTE)))

\* the pattern of main at position i
VersionMatchAt(t, i) ==
  IF i = 0 \/ ~AtBOL(t, i) THEN NoMatch
  ELSE VersionMatchKey(t, i, VersionKeyEnd(t, i))

\* \s*$ at position i, greedy: the position after the longest run of
\* whitespace that ends at the end of a line
TrailingEnd(t, i) ==
  IF i = 0 THEN 0
  ELSE MaxOr0({p \in i..RunEnd(t, i, Whitespace) : AtEOL(t, p)})

WithEnd(m, f) == IF f = 0 THEN NoMatch ELSE [m EXCEPT !.end = f]
WithTrailing(t, m) == IF ~m.ok THEN NoMatch ELSE WithEnd(m, TrailingEnd(t, m.end))

\* the pattern of patch_lockfile at position i: the same followed by \s*$
LockVersionMatchAt(t, i) == WithTrailing(t, VersionMatchAt(t, i))

\* re.search and re.sub(count=1): the leftmost match
SearchVersion(t) ==
  VersionMatchAt(t, MinOr0({i \in 1..Len(t) : VersionMatchAt(t, i).ok}))

SearchLockVersion(t) ==
  LockVersionMatchAt(t, MinOr0({i \in 1..Len(t) : LockVersionMatchAt(t, i).ok}))

\* group 1 of a match m on block
Group1(block, m) == Slice(block, m.start, m.g1end)

\* re.sub(count=1): block with the match m replaced by repl
ReplaceMatch(block, m, repl) ==
  IF ~m.ok THEN block
  ELSE Slice(block, 1, m.start) \o repl \o Slice(block, m.end, Len(block) + 1)

\* ------------------------------------------------------------- Cargo.toml
PackageHeader == <<LBR, W_PACKAGE, RBR>>

\* span(1) of the match of (?ms)^\[package\](.*?)(^\[|\Z) that starts at i
PackageSpan(t, i) ==
  IF i = 0 THEN [ok |-> FALSE, start |-> 0, end |-> 0]
  ELSE [ok |-> TRUE,
        start |-> i + Len(PackageHeader),
        end |-> MinOr0({p \in (i + Len(PackageHeader))..(Len(t) + 1) :
                          p = Len(t) + 1 \/ (AtBOL(t, p) /\ t[p] = LBR)})]

\* re.search(r"(?ms)^\[package\](.*?)(^\[|\Z)", text)
SearchPackage(t) ==
  PackageSpan(t, MinOr0({i \in 1..Len(t) : AtBOL(t, i) /\ HasAt(t, i, PackageHeader)}))

\* the replacement template of main: rf"\\1\"{new_ver}\""
ManifestTemplate(new_ver) ==
  <<BSLASH, BSLASH, "1", BSLASH, QUOTE>> \o new_ver \o <<BSLASH, QUOTE>>

\* re's expansion of a backslash followed by c: \\ is a backslash, \1 is
\* group 1, a backslash before any other non-letter stays with it
ExpandEscape(c, g1) ==
  IF c = BSLASH THEN <<BSLASH>>
  ELSE IF c = "1" THEN g1
  ELSE <<BSLASH, c>>

\* re's expansion of a replacement template
RECURSIVE ExpandTemplate(_, _)
ExpandTemplate(tpl, g1) ==
  IF tpl = <<>> THEN <<>>
  ELSE IF tpl[1] = BSLASH /\ Len(tpl) >= 2
  THEN ExpandEscape(tpl[2], g1) \o ExpandTemplate(SubSeq(tpl, 3, Len(tpl)), g1)
  ELSE <<tpl[1]>> \o ExpandTemplate(Tail(tpl), g1)

\* re.sub(VERSION_RE, template, pkg_block, count=1)
SubManifestVersionAt(block, m, new_ver) ==
  ReplaceMatch(block, m, ExpandTemplate(ManifestTemplate(new_ver), Group1(block, m)))

SubManifestVersion(block, new_ver) ==
  SubManifestVersionAt(block, SearchVersion(block), new_ver)

\* lines 63-66 of main on pkg_block and ver_match
VersionOfMatch(block, vm) ==
  IF ~vm.ok THEN [ok |-> FALSE, val |-> <<"version field not found in [package]">>]
  ELSE [ok |-> TRUE, val |-> Slice(block, vm.g1end + 1, vm.vend)]

\* lines 60-66 of main on pkg_match
VersionOfPackage(t, pm) ==
  IF ~pm.ok THEN [ok |-> FALSE, val |-> <<"[package] section not found in Cargo.toml">>]
  ELSE VersionOfMatch(Slice(t, pm.start, pm.end),
                      SearchVersion(Slice(t, pm.start, pm.end)))

\* lines 59-66 of main: the version of the first [package] section, or the
\* SystemExit message
ExtractVersion(t) == VersionOfPackage(t, SearchPackage(t))

\* lines 70-73 of main on pkg_match
RewriteSpan(t, pm, new_ver) ==
  Slice(t, 1, pm.start)
  \o SubManifestVersion(Slice(t, pm.start, pm.end), new_ver)
  \o Slice(t, pm.end, Len(t) + 1)

\* lines 70-73 of main: new_text
RewriteManifest(t, new_ver) == RewriteSpan(t, SearchPackage(t), new_ver)

\* ------------------------------------------------------------- Cargo.lock
LockHeader == <<LBR, LBR, W_PACKAGE, RBR, RBR>>

\* the lookahead (?=^\[\[|\Z) at position p
IsBlockStop(t, p) == p = Len(t) + 1 \/ (AtBOL(t, p) /\ HasAt(t, p, <<LBR, LBR>>))

\* span(1) of the match whose group 1 starts at s
BlockFrom(t, s) ==
  [start |-> s, end |-> MinOr0({p \in s..(Len(t) + 1) : IsBlockStop(t, p)})]

\* list(re.finditer(r"(?ms)^\[\[package\]\](.*?)(?=^\[\[|\Z)", text)) from
\* position pos on: the span(1) of every match
RECURSIVE PkgIter(_, _)
PkgIterAfter(t, m) == <<m>> \o PkgIter(t, m.end)
PkgIterAt(t, i) ==
  IF i = 0 THEN <<>> ELSE PkgIterAfter(t, BlockFrom(t, i + Len(LockHeader)))
PkgIter(t, pos) ==
  PkgIterAt(t, MinOr0({i \in pos..Len(t) : AtBOL(t, i) /\ HasAt(t, i, LockHeader)}))

\* name\s*=\s*\"<crate_name>\"\s*$ at position i
NameLineEnd(t, i, crate_name) ==
  TrailingEnd(t,
    Lit(t, Lit(t, Lit(t, SkipWS(t, Lit(t, SkipWS(t, Lit(t, i, W_NAME)), EQ)),
                      QUOTE), crate_name), QUOTE))

\* re.search(rf"(?m)^name\s*=\s*\"{re.escape(crate_name)}\"\s*$", block)
HasNameLine(block, crate_name) ==
  \E i \in 1..Len(block) : AtBOL(block, i) /\ NameLineEnd(block, i, crate_name) # 0

\* re.sub(LOCK_VERSION_RE, repl, block, count=1)
SubLockVersionAt(block, m, new_ver) ==
  ReplaceMatch(block, m, Group1(block, m) \o <<QUOTE>> \o new_ver \o <<QUOTE>>)

SubLockVersion(block, new_ver) ==
  SubLockVersionAt(block, SearchLockVersion(block), new_ver)

\* lines 35-43: new_text, offset and changed after the pass for match m
LoopBody(m, block, updated_block, st, crate_name) ==
  IF HasNameLine(block, crate_name) /\ updated_block # block
  THEN [new_text |-> Slice(st.new_text, 1, m.start + st.offset)
                     \o updated_block
                     \o Slice(st.new_text, m.end + st.offset, Len(st.new_text) + 1),
        offset |-> st.offset + Len(updated_block) - Len(block),
        changed |-> TRUE]
  ELSE st

LoopBlock(m, block, st, crate_name, new_ver) ==
  LoopBody(m, block, SubLockVersion(block, new_ver), st, crate_name)

\* lines 33-43 for match m
LoopStep(t, m, st, crate_name, new_ver) ==
  LoopBlock(m, Slice(t, m.start, m.end), st, crate_name, new_ver)

\* the for loop of patch_lockfile from the n-th match on
RECURSIVE PatchLoop(_, _, _, _, _, _)
PatchLoop(pkg_iter, n, t, st, crate_name, new_ver) ==
  IF n > Len(pkg_iter) THEN st
  ELSE PatchLoop(pkg_iter, n + 1, t,
                 LoopStep(t, pkg_iter[n], st, crate_name, new_ver),
                 crate_name, new_ver)

\* lines 45-47 after the loop
PatchResult(t, st) ==
  IF st.changed
  THEN [text |-> st.new_text, changed |-> TRUE, written |-> TRUE]
  ELSE [text |-> t, changed |-> FALSE, written |-> FALSE]

\* patch_lockfile(lock_path, crate_name, new_ver) on a lock_path that exists
\* or not and holds t: the text the file holds afterwards, the value
\* returned, and whether write_text was called
patch_lockfile(exists, t, crate_name, new_ver) ==
  IF ~exists THEN [text |-> t, changed |-> FALSE, written |-> FALSE]
  ELSE PatchResult(t, PatchLoop(PkgIter(t, 1), 1, t,
                                [new_text |-> t, offset |-> 0, changed |-> FALSE],
                                crate_name, new_ver))

\* -------------------------------------------------------------- the script
USAGE == <<"Usage: bump_version.py [major|minor|patch]">>
LOCK_MSG == "Lockfile updated to "

\* sys.argv[1].lower() on the arguments the model passes
Lower(a) ==
  CASE a = "Major" -> "major"
    [] a = "Minor" -> "minor"
    [] a = "Patch" -> "patch"
    [] OTHER -> a

\* the prints of main with the version printed first
OutputLines_VersionFirst(changed, ver) ==
  IF changed THEN <<ver, (<<LOCK_MSG>> \o ver)>> ELSE <<ver>>

\* lines 79-81 of main: the lines printed on standard output
OutputLines(changed, ver) ==
  IF changed THEN <<(<<LOCK_MSG>> \o ver), ver>> ELSE <<ver>>

VARIABLES
  argv,          \* sys.argv of the running process
  pc,            \* the position of main
  kind,          \* local of main
  text,          \* local of main: Cargo.toml as read
  new_ver,       \* local of main
  lock_changed,  \* local of main
  cargo_toml,    \* contents of Cargo.toml
  lock_exists,   \* whether Cargo.lock exists
  cargo_lock,    \* contents of Cargo.lock
  stdout,        \* lines written to standard output by the running process
  stderr,        \* messages written to standard error by the running process
  exit_status,   \* -1 while the process runs
  events,        \* file accesses and prints of the running process, in order
  runs,          \* number of processes started so far
  toml0,         \* Cargo.toml when the running process started
  lock0,         \* Cargo.lock when the running process started
  b_ver,         \* bump: argument ver
  b_kind,        \* bump: argument kind
  b_pc,          \* bump: position
  b_parsed,      \* bump: major, minor, patch after line 12
  b_out,         \* bump: value returned or error raised
  p_ver,         \* patch_lockfile: argument new_ver
  p_rets,        \* patch_lockfile: values returned by the calls so far
  p_hist         \* patch_lockfile: Cargo.lock before the first and after each call

mainVars == <<argv, pc, kind, text, new_ver, lock_changed, cargo_toml, stdout,
              stderr, exit_status, events, runs, toml0, lock0>>
lockVars == <<lock_exists, cargo_lock>>
bumpVars == <<b_ver, b_kind, b_pc, b_parsed, b_out>>
patchVars == <<p_ver, p_rets, p_hist>>
vars == <<mainVars, lockVars, bumpVars, patchVars>>

\* ------------------------------------------------------------------ inputs
\* the concatenations of at most n elements of S
Extend(S, prev) == prev \cup {x \o q : x \in S, q \in prev}

RECURSIVE ConcatsUpTo(_, _)
ConcatsUpTo(S, n) ==
  IF n = 0 THEN {<<>>} ELSE Extend(S, ConcatsUpTo(S, n - 1))

V123 == <<"1", DOT, "2", DOT, "3">>
V199 == <<"1", DOT, "9", DOT, "9">>
V010 == <<"0", DOT, "1", DOT, "0">>
V1100 == <<"1", DOT, "1", "0", DOT, "0">>

VersionLine(v) == <<W_VERSION, SP, EQ, SP, QUOTE>> \o v \o <<QUOTE, NL>>
NameLine(n) == <<W_NAME, SP, EQ, SP, QUOTE, n, QUOTE, NL>>

ManifestLines ==
  { <<LBR, W_PACKAGE, RBR, NL>>,
    <<LBR, W_DEPS, RBR, NL>>,
    VersionLine(V199),
    <<W_VERSION, EQ, QUOTE>> \o V010 \o <<QUOTE, SP, NL>>,
    <<W_VERSION, SP, EQ, SP, QUOTE, "1", DOT, "2", QUOTE, NL>>,
    <<W_OTHER, NL>> }

ManifestInputs == ConcatsUpTo(ManifestLines, MaxManifestLines)

LockBlocks ==
  { <<LBR, LBR, W_PACKAGE, RBR, RBR, NL>> \o NameLine(n) \o v \o tl :
      n \in {CRATE, OTHER_CRATE},
      v \in {<<>>, VersionLine(V199)},
      tl \in {<<>>, <<NL>>, <<W_DEPS, NL, NL>>} }

LockInputs == ConcatsUpTo(LockBlocks, MaxBlocks)

\* the lockfiles main is run against
MainLockInputs == { <<W_OTHER, NL, NL>> \o c : c \in ConcatsUpTo(LockBlocks, 1) }

ArgvInputs ==
  { <<"bump_version.py">>,
    <<"bump_version.py", "minor">>,
    <<"bump_version.py", "Patch">>,
    <<"bump_version.py", "bogus">>,
    <<"bump_version.py", "major", "minor">> }

BumpChars == {"0", "1", "9", DOT}
BumpInputs ==
  ConcatsUpTo({<<c>> : c \in BumpChars}, MaxVerLen)
  \cup {V123}
  \cup {<<SP>> \o c \o <<NL>> : c \in {V199, <<"1", DOT, "9">>}}
KindInputs == {"major", "minor", "patch", "bogus"}

PatchVersions == {V199, V1100}

\* ------------------------------------------------------------ idle values
MainIdle ==
  /\ argv = <<>> /\ pc = "idle" /\ kind = "" /\ text = <<>> /\ new_ver = <<>>
  /\ lock_changed = FALSE /\ cargo_toml = <<>> /\ stdout = <<>> /\ stderr = <<>>
  /\ exit_status = -1 /\ events = <<>> /\ runs = 0 /\ toml0 = <<>> /\ lock0 = <<>>
BumpIdle ==
  /\ b_ver = <<>> /\ b_kind = "" /\ b_pc = "idle"
  /\ b_parsed = [ok |-> FALSE, val |-> <<>>]
  /\ b_out = [ok |-> FALSE, val |-> <<>>]
PatchIdle ==
  /\ p_ver = <<>> /\ p_rets = <<>> /\ p_hist = <<>>

\* -------------------------------------------------------------------- main
Init ==
  /\ argv \in ArgvInputs
  /\ pc = "start"
  /\ kind = "" /\ text = <<>> /\ new_ver = <<>> /\ lock_changed = FALSE
  /\ cargo_toml \in ManifestInputs
  /\ lock_exists \in BOOLEAN
  /\ cargo_lock \in (IF lock_exists THEN MainLockInputs ELSE {<<>>})
  /\ stdout = <<>> /\ stderr = <<>> /\ exit_status = -1 /\ events = <<>>
  /\ runs = 1
  /\ toml0 = cargo_toml /\ lock0 = cargo_lock
  /\ BumpIdle /\ PatchIdle

\* the argument check as len(sys.argv) < 2
CheckArgs_AtLeastOne ==
  /\ pc = "start"
  /\ IF Len(argv) < 2
     THEN /\ stderr' = Append(stderr, USAGE)
          /\ events' = Append(events, "print_usage")
          /\ exit_status' = 2
          /\ pc' = "exited"
          /\ kind' = kind
     ELSE /\ kind' = Lower(argv[2])
          /\ pc' = "read"
          /\ UNCHANGED <<stderr, events, exit_status>>
  /\ UNCHANGED <<argv, text, new_ver, lock_changed, cargo_toml, stdout, runs,
                 toml0, lock0, lockVars, bumpVars, patchVars>>

\* lines 50-53
CheckArgs ==
  /\ pc = "start"
  /\ IF Len(argv) # 2
     THEN /\ stderr' = Append(stderr, USAGE)
          /\ events' = Append(events, "print_usage")
          /\ exit_status' = 2
          /\ pc' = "exited"
          /\ kind' = kind
     ELSE /\ kind' = Lower(argv[2])
          /\ pc' = "read"
          /\ UNCHANGED <<stderr, events, exit_status>>
  /\ UNCHANGED <<argv, text, new_ver, lock_changed, cargo_toml, stdout, runs,
                 toml0, lock0, lockVars, bumpVars, patchVars>>

\* lines 54-67
ReadManifest ==
  /\ pc = "read"
  /\ text' = cargo_toml
  /\ events' = Append(events, "read_manifest")
  /\ \E cur \in {ExtractVersion(cargo_toml)} :
     IF ~cur.ok
     THEN /\ stderr' = Append(stderr, cur.val)
          /\ exit_status' = 1 /\ pc' = "exited" /\ new_ver' = new_ver
     ELSE \E r \in {bump(cur.val, kind)} :
          IF ~r.ok
          THEN /\ stderr' = Append(stderr, r.val)
               /\ exit_status' = 1 /\ pc' = "exited" /\ new_ver' = new_ver
          ELSE /\ new_ver' = r.val
               /\ pc' = "write"
               /\ UNCHANGED <<stderr, exit_status>>
  /\ UNCHANGED <<argv, kind, lock_changed, cargo_toml, stdout, runs,
                 toml0, lock0, lockVars, bumpVars, patchVars>>

\* lines 69-74
WriteManifest ==
  /\ pc = "write"
  /\ cargo_toml' = RewriteManifest(text, new_ver)
  /\ events' = Append(events, "write_manifest")
  /\ pc' = "lock"
  /\ UNCHANGED <<argv, kind, text, new_ver, lock_changed, stdout, stderr,
                 exit_status, runs, toml0, lock0, lockVars, bumpVars, patchVars>>

\* line 78
PatchLockfile ==
  /\ pc = "lock"
  /\ \E r \in {patch_lockfile(lock_exists, cargo_lock, CRATE, new_ver)} :
     /\ cargo_lock' = r.text
     /\ lock_changed' = r.changed
     /\ events' = events
                  \o (IF lock_exists THEN <<"read_lock">> ELSE <<>>)
                  \o (IF r.written THEN <<"write_lock">> ELSE <<>>)
  /\ pc' = "print"
  /\ UNCHANGED <<argv, kind, text, new_ver, cargo_toml, stdout, stderr,
                 exit_status, runs, toml0, lock0, lock_exists, bumpVars, patchVars>>

\* lines 79-81 and the return of main
PrintResult ==
  /\ pc = "print"
  /\ stdout' = stdout \o OutputLines(lock_changed, new_ver)
  /\ events' = events \o (IF lock_changed THEN <<"print_lock_line">> ELSE <<>>)
                      \o <<"print_version">>
  /\ exit_status' = 0
  /\ pc' = "done"
  /\ UNCHANGED <<argv, kind, text, new_ver, lock_changed, cargo_toml, stderr,
                 runs, toml0, lock0, lockVars, bumpVars, patchVars>>

\* lines 83-84: the script is started again on the files the last process left
Invoke ==
  /\ pc \in {"done", "exited"}
  /\ runs < MaxRuns
  /\ argv' \in ArgvInputs
  /\ pc' = "start"
  /\ kind' = "" /\ text' = <<>> /\ new_ver' = <<>> /\ lock_changed' = FALSE
  /\ stdout' = <<>> /\ stderr' = <<>> /\ exit_status' = -1 /\ events' = <<>>
  /\ runs' = runs + 1
  /\ toml0' = cargo_toml /\ lock0' = cargo_lock
  /\ UNCHANGED <<cargo_toml, lockVars, bumpVars, patchVars>>

Next ==
  \/ CheckArgs
  \/ ReadManifest
  \/ WriteManifest
  \/ PatchLockfile
  \/ PrintResult
  \/ Invoke

Spec == Init /\ [][Next]_vars

\* -------------------------------------------------------------- bump alone
InitBump ==
  /\ b_ver \in BumpInputs
  /\ b_kind \in KindInputs
  /\ b_pc = "call"
  /\ b_parsed = [ok |-> FALSE, val |-> <<>>]
  /\ b_out = [ok |-> FALSE, val |-> <<>>]
  /\ MainIdle /\ PatchIdle
  /\ lock_exists = FALSE /\ cargo_lock = <<>>

\* lines 9-12
BumpParse ==
  /\ b_pc = "call"
  /\ b_parsed' = ParseVersion(b_ver)
  /\ IF b_parsed'.ok
     THEN b_pc' = "parsed" /\ b_out' = b_out
     ELSE b_pc' = "raised" /\ b_out' = bump(b_ver, b_kind)
  /\ UNCHANGED <<b_ver, b_kind, mainVars, lockVars, patchVars>>

\* lines 13-21
BumpApply ==
  /\ b_pc = "parsed"
  /\ b_out' = bump(b_ver, b_kind)
  /\ b_pc' = IF b_out'.ok THEN "returned" ELSE "raised"
  /\ UNCHANGED <<b_ver, b_kind, b_parsed, mainVars, lockVars, patchVars>>

NextBump ==
  \/ BumpParse
  \/ BumpApply

SpecBump == InitBump /\ [][NextBump]_vars

\* ---------------------------------------------------- patch_lockfile alone
InitPatch ==
  /\ lock_exists \in BOOLEAN
  /\ cargo_lock \in (IF lock_exists THEN LockInputs ELSE {<<>>})
  /\ p_ver \in PatchVersions
  /\ p_rets = <<>>
  /\ p_hist = <<cargo_lock>>
  /\ MainIdle /\ BumpIdle

\* lines 23-47, called with the same arguments each time
CallPatch ==
  /\ Len(p_rets) < MaxPatches
  /\ \E r \in {patch_lockfile(lock_exists, cargo_lock, CRATE, p_ver)} :
     /\ cargo_lock' = r.text
     /\ p_rets' = Append(p_rets, [changed |-> r.changed, written |-> r.written])
     /\ p_hist' = Append(p_hist, r.text)
  /\ UNCHANGED <<lock_exists, p_ver, mainVars, bumpVars>>

NextPatch ==
  \/ CallPatch

SpecPatch == InitPatch /\ [][NextPatch]_vars

\* ================================================================= claims
\* what the claims speak of, stated without the script's own steps

\* s is MAJOR.MINOR.PATCH, each component one or more digits
IsVersionString(s) ==
  \E a, b \in 2..Len(s) :
    /\ a + 1 < b /\ b < Len(s)
    /\ s[a] = DOT /\ s[b] = DOT
    /\ \A k \in (1..Len(s)) \ {a, b} : s[k] \in Digits

\* the three components of a version string
ComponentsOf(s) ==
  LET a == CHOOSE i \in 1..Len(s) : s[i] = DOT /\ \A k \in 1..(i - 1) : s[k] # DOT
      b == CHOOSE i \in (a + 1)..Len(s) : s[i] = DOT
  IN <<SubSeq(s, 1, a - 1), SubSeq(s, a + 1, b - 1), SubSeq(s, b + 1, Len(s))>>

\* the number a string of digits denotes, read from the left
RECURSIVE NumVal(_, _)
NumVal(ds, acc) ==
  IF ds = <<>> THEN acc ELSE NumVal(Tail(ds), 10 * acc + DigitVal(ds[1]))

TripleOf(s) ==
  LET c == ComponentsOf(s) IN <<NumVal(c[1], 0), NumVal(c[2], 0), NumVal(c[3], 0)>>

\* a component without leading zeros: a bare 0 or a first digit other than 0
RECURSIVE DropZeros(_)
DropZeros(ds) ==
  IF Len(ds) > 1 /\ ds[1] = "0" THEN DropZeros(Tail(ds)) ELSE ds

CanonOf(s) ==
  LET c == ComponentsOf(s) IN
  DropZeros(c[1]) \o <<DOT>> \o DropZeros(c[2]) \o <<DOT>> \o DropZeros(c[3])

IsCanonical(s) == IsVersionString(s) /\ CanonOf(s) = s

ValidKinds == {"major", "minor", "patch"}

RuleOf(v, k) ==
  CASE k = "major" -> <<v[1] + 1, 0, 0>>
    [] k = "minor" -> <<v[1], v[2] + 1, 0>>
    [] k = "patch" -> <<v[1], v[2], v[3] + 1>>

V200 == <<"2", DOT, "0", DOT, "0">>
V130 == <<"1", DOT, "3", DOT, "0">>
V124 == <<"1", DOT, "2", DOT, "4">>
V1009 == <<"1", "0", DOT, "0", DOT, "9">>

\* C1: for every version string matching MAJOR.MINOR.PATCH and every kind
\* in {major, minor, patch}, bump returns (does not raise) a string that
\* matches MAJOR.MINOR.PATCH again and whose components are (major+1, 0, 0),
\* (major, minor+1, 0) or (major, minor, patch+1); the examples of the
\* specification on "1.2.3" come out as "2.0.0", "1.3.0" and "1.2.4".
C1_BumpRule ==
  (b_pc \in {"returned", "raised"} /\ IsVersionString(b_ver) /\ b_kind \in ValidKinds)
    => /\ b_pc = "returned"
       /\ b_out.ok
       /\ IsVersionString(b_out.val)
       /\ TripleOf(b_out.val) = RuleOf(TripleOf(b_ver), b_kind)
       /\ (b_ver = V123 /\ b_kind = "major" => b_out.val = V200)
       /\ (b_ver = V123 /\ b_kind = "minor" => b_out.val = V130)
       /\ (b_ver = V123 /\ b_kind = "patch" => b_out.val = V124)

C1_Witness ==
  /\ b_pc = "returned" /\ b_ver = V199 /\ b_kind = "minor"
  /\ b_out.val = V1100

\* C8 as stated: for every input matching ^\d+\.\d+\.\d+$, formatting the
\* parsed triple gives back the input, and the formatted string has no
\* leading zeros.
C8_Original ==
  (b_pc \in {"parsed", "returned"} /\ IsVersionString(b_ver))
    => /\ FormatVersion(b_parsed.val) = b_ver
       /\ IsCanonical(FormatVersion(b_parsed.val))

\* C8 amended: for every input matching ^\d+\.\d+\.\d+$, formatting the
\* parsed triple gives the input with the leading zeros of each component
\* removed -- the input itself when no component has a leading zero -- and
\* the formatted string has no leading zeros beyond a bare 0.
C8_RoundTrip ==
  (b_pc \in {"parsed", "returned"} /\ IsVersionString(b_ver))
    => /\ FormatVersion(b_parsed.val) = CanonOf(b_ver)
       /\ (IsCanonical(b_ver) => FormatVersion(b_parsed.val) = b_ver)
       /\ IsCanonical(FormatVersion(b_parsed.val))

C8_Witness ==
  /\ b_pc = "parsed" /\ b_ver = V1009 /\ b_parsed.ok
  /\ FormatVersion(b_parsed.val) = V1009

\* ---------------------------------------------------------- files, claims
\* position i of t starts a line version = "X.Y.Z" (spaces may follow)
IsVersionLineAt(t, i) ==
  /\ VersionMatchAt(t, i).ok
  /\ AtEOL(t, RunEnd(t, VersionMatchAt(t, i).end, {SP}))

\* t with the X.Y.Z of the version line at position i replaced by ver
WithVersionAt(t, i, ver) ==
  LET m == VersionMatchAt(t, i) IN
  Slice(t, 1, m.g1end + 1) \o ver \o Slice(t, m.vend, Len(t) + 1)

\* the first version line at or after position lo and before position hi
FirstVersionLine(t, lo, hi) ==
  LET hits == {i \in lo..(hi - 1) : IsVersionLineAt(t, i)} IN
  IF hits = {} THEN 0 ELSE CHOOSE i \in hits : \A j \in hits : i <= j

HasPackageSection(t) ==
  \E i \in 1..Len(t) : AtBOL(t, i) /\ HasAt(t, i, PackageHeader)

\* the first version line of the first [package] section, 0 if none
PackageVersionLine(t) ==
  IF ~HasPackageSection(t) THEN 0
  ELSE LET pm == SearchPackage(t) IN FirstVersionLine(t, pm.start, pm.end)

\* the manifest a run has to leave: only the X.Y.Z of that line replaced
ExpectedManifest(t, ver) == WithVersionAt(t, PackageVersionLine(t), ver)

\* the lockfile a call has to leave: in every [[package]] block with a
\* name line of the crate, the X.Y.Z of the first version line replaced;
\* blocks are taken last to first so that positions stay valid
RECURSIVE ExpectedLockFrom(_, _, _, _, _)
ExpectedLockFrom(t, spans, n, crate_name, ver) ==
  IF n = 0 THEN t
  ELSE LET m == spans[n]
           i == FirstVersionLine(t, m.start, m.end)
           u == IF HasNameLine(Slice(t, m.start, m.end), crate_name) /\ i # 0
                THEN WithVersionAt(t, i, ver) ELSE t
       IN ExpectedLockFrom(u, spans, n - 1, crate_name, ver)

ExpectedLock(t, crate_name, ver) ==
  LET spans == PkgIter(t, 1) IN ExpectedLockFrom(t, spans, Len(spans), crate_name, ver)

Succeeded == pc = "done" /\ exit_status = 0
LockLine(ver) == <<LOCK_MSG>> \o ver
Range(q) == {q[i] : i \in 1..Len(q)}
IndexOf(q, x) == CHOOSE i \in 1..Len(q) : q[i] = x
Writes == {"write_manifest", "write_lock"}
FileAccesses == Writes \cup {"read_manifest", "read_lock"}

\* C2: when a run succeeds, the manifest written back is the manifest read
\* with only the X.Y.Z of the version line of the first [package] section
\* replaced by the new version; every other character, the spacing and the
\* quotes of that line included, is as it was.
C2_Original ==
  pc \in {"lock", "print", "done"}
    => cargo_toml = ExpectedManifest(toml0, new_ver)

\* C10: after a successful run that printed V, the version extracted from
\* the first [package] section of the manifest is V (so that a following
\* run starts from V).
C10_Original ==
  Succeeded
    => ExtractVersion(cargo_toml) = [ok |-> TRUE, val |-> stdout[Len(stdout)]]

\* C3: a call of patch_lockfile on an existing lockfile leaves the lockfile
\* with the version of the first version line of every [[package]] block
\* named after the crate set to new_ver, and everything else, line breaks
\* and blank lines included, as it was.
C3_Original ==
  (lock_exists /\ Len(p_rets) >= 1)
    => p_hist[2] = ExpectedLock(p_hist[1], CRATE, p_ver)

\* C4: a second call of patch_lockfile with the same crate name and new
\* version changes nothing in the file and returns changed = false.
C4_Original ==
  Len(p_rets) >= 2
    => /\ ~p_rets[2].changed
       /\ p_hist[3] = p_hist[2]

\* C5: on a successful run the last line on standard output is the new
\* version; the line "Lockfile updated to <new_version>" is there if and
\* only if the lockfile was modified, it comes before the version line,
\* and it is printed after the manifest was written.
C5_Output ==
  /\ Succeeded =>
       /\ stdout # <<>>
       /\ stdout[Len(stdout)] = bump(ExtractVersion(toml0).val, Lower(argv[2])).val
       /\ (LockLine(stdout[Len(stdout)]) \in Range(stdout)) <=> (cargo_lock # lock0)
       /\ (LockLine(stdout[Len(stdout)]) \in Range(stdout)) <=> ("write_lock" \in Range(events))
       /\ stdout \in {<<new_ver>>, <<LockLine(new_ver), new_ver>>}
       /\ "print_lock_line" \in Range(events) =>
            /\ IndexOf(events, "write_manifest") < IndexOf(events, "print_lock_line")
            /\ IndexOf(events, "print_lock_line") < IndexOf(events, "print_version")
  /\ stdout # <<>> => "write_manifest" \in Range(events)

C5_Witness ==
  /\ Succeeded /\ Len(stdout) = 2
  /\ stdout[1] = LockLine(V1100) /\ stdout[2] = V1100
  /\ cargo_lock # lock0

\* the three failures C6 names, as properties of the run's input
BadKind == Lower(argv[2]) \notin ValidKinds
NoVersionField(t) == HasPackageSection(t) /\ PackageVersionLine(t) = 0

\* C6: a run with an invalid kind, or on a manifest without a [package]
\* section, or without a version = "X.Y.Z" line in it, never gets to write
\* a file or to print on standard output, and ends with a non-zero exit
\* status and a message on standard error; both files are as they were.
C6_Abort ==
  (Len(argv) = 2 /\ (BadKind \/ ~HasPackageSection(toml0) \/ NoVersionField(toml0)))
    => /\ pc \in {"start", "read", "exited"}
       /\ stdout = <<>>
       /\ cargo_toml = toml0 /\ cargo_lock = lock0
       /\ Range(events) \cap Writes = {}
       /\ pc = "exited" => (exit_status = 1 /\ Len(stderr) = 1)

C6_Witness ==
  /\ pc = "exited" /\ Len(argv) = 2 /\ BadKind
  /\ HasPackageSection(toml0) /\ ~NoVersionField(toml0)
  /\ exit_status = 1 /\ stderr = <<(<<"ValueError", "Invalid bump kind">>)>>

\* the blocks of a lockfile that carry a name line of the crate
NamedBlocks(t) ==
  LET spans == PkgIter(t, 1) IN
  {n \in 1..Len(spans) : HasNameLine(Slice(t, spans[n].start, spans[n].end), CRATE)}

\* no block named after the crate has a version line
NoVersionInNamedBlocks(t) ==
  LET spans == PkgIter(t, 1) IN
  \A n \in NamedBlocks(t) : FirstVersionLine(t, spans[n].start, spans[n].end) = 0

AfterPatch == pc \in {"print", "done"}

\* the part of C7 about the lockfile: it is written exactly when
\* patch_lockfile returns true, and patch_lockfile returns false and leaves
\* it alone when it is missing, when no block is named after the crate, or
\* when the named blocks have no version line; a run without lockfile
\* succeeds and prints the version alone.
C7_LockPart ==
  /\ ("write_lock" \in Range(events)) <=> (AfterPatch /\ lock_changed)
  /\ (AfterPatch /\ ~lock_changed) => cargo_lock = lock0
  /\ (AfterPatch /\ (~lock_exists \/ NamedBlocks(lock0) = {} \/ NoVersionInNamedBlocks(lock0)))
       => (~lock_changed /\ cargo_lock = lock0)
  /\ (~lock_exists /\ Len(argv) = 2 /\ ~BadKind /\ PackageVersionLine(toml0) # 0)
       => /\ pc # "exited"
          /\ pc = "done" => (exit_status = 0 /\ stdout = <<new_ver>>)

\* C7: patch_lockfile writes the lockfile exactly when it returns true; it
\* returns false and leaves the file when the lockfile is missing, when no
\* block is named after the crate, or when the named block has no version
\* line; a run without lockfile succeeds, leaves the manifest bumped to the
\* new version and prints no lockfile line.
C7_Original ==
  /\ C7_LockPart
  /\ (~lock_exists /\ pc = "done")
       => ExtractVersion(cargo_toml) = [ok |-> TRUE, val |-> new_ver]

\* C9: started with no argument or with two or more, the script exits with
\* status 2 and the usage line on standard error; it reads and writes no
\* file and prints nothing on standard output.
C9_Usage ==
  Len(argv) # 2
    => /\ pc \in {"start", "exited"}
       /\ stdout = <<>>
       /\ Range(events) \cap FileAccesses = {}
       /\ cargo_toml = toml0 /\ cargo_lock = lock0
       /\ pc = "exited" =>
            /\ exit_status = 2
            /\ stderr = <<USAGE>>
            /\ events = <<"print_usage">>

C9_Witness ==
  /\ pc = "exited" /\ Len(argv) = 3 /\ exit_status = 2 /\ stderr = <<USAGE>>
  /\ HasPackageSection(cargo_toml)

====
